---- MODULE Spec2Model ----
(***************************************************************************)
(* Media-dw (main.py): URL classification, the two download strategies,    *)
(* the batch loop of download_from_file, the DownloadHistory store and     *)
(* the menu loop of MediaDownloaderApp.run, as one state machine.          *)
(*                                                                         *)
(* Strings the code searches with regular expressions are sequences of     *)
(* atoms (short strings); the text is their concatenation, and a pattern   *)
(* occurs in the text when one of the atoms is the pattern.                *)
(***************************************************************************)
EXTENDS Integers, Sequences, FiniteSets, TLC

(* ------------------------------------------------------------------ *)
(* Bounds of the exploration                                           *)
(* ------------------------------------------------------------------ *)
\* longest URL list a batch file holds
MaxUrls == 3
\* single downloads explored in one session
MaxSingle == 2

(* ------------------------------------------------------------------ *)
(* Config                                                              *)
(* ------------------------------------------------------------------ *)
DEFAULT_QUALITY == "best"
\* add_entry keeps the last 100 entries
HISTORY_LIMIT == 100

\* Python's None, where a string is expected
None == "None"

(* ------------------------------------------------------------------ *)
(* URLs                                                                *)
(* ------------------------------------------------------------------ *)
\* A URL is [scheme, host, rest]: the scheme atom ("" when the text has
\* none), the atoms of the host and the atoms after the host.
UrlText(u) == <<u.scheme>> \o u.host \o u.rest

\* atoms that are a registered domain (label "." TLD)
DomainAtoms ==
    {"youtube.com", "youtu.be", "instagram.com", "tiktok.com", "twitter.com",
     "x.com", "facebook.com", "reddit.com", "twitch.tv", "example.com"}
\* atoms that are a run of labels, each followed by its dot
LabelAtoms == {"www.", "m."}
\* atoms that start a label which the domain atom after them ends
\* ("netfli" before "x.com" spells the domain netflix.com)
LabelPrefixAtoms == {"netfli", "my"}
\* atoms that start a path or a query
PathStartAtoms == {"/", "/watch?v=", "/p/", "/reel/", "/tv/", "/video/", "/status/", "/clip", "/?u="}
\* atoms holding white space
SpaceAtoms == {" "}
\* atoms matching [A-Za-z0-9_-]+
IdAtoms == {"abc", "123"}

IsHost(h) ==
    \/ h = <<"localhost">>
    \/ /\ Len(h) >= 1
       /\ h[Len(h)] \in DomainAtoms
       /\ \A k \in 1..(Len(h) - 1) :
             \/ h[k] \in LabelAtoms
             \/ k = Len(h) - 1 /\ h[k] \in LabelPrefixAtoms

is_valid_url(u) ==
    /\ u.scheme \in {"http://", "https://"}
    /\ IsHost(u.host)
    /\ \/ u.rest = <<>>
       \/ /\ u.rest[1] \in PathStartAtoms
          /\ \A k \in 1..Len(u.rest) : u.rest[k] \notin SpaceAtoms

\* re.search(pattern, text): some atom of the text is one of the pattern's
\* alternatives
re_search(alternatives, text) ==
    \E k \in 1..Len(text) : text[k] \in alternatives

domain_patterns ==
    << [platform |-> "youtube",   pattern |-> {"youtube.com", "youtu.be"}],
       [platform |-> "instagram", pattern |-> {"instagram.com"}],
       [platform |-> "tiktok",    pattern |-> {"tiktok.com"}],
       [platform |-> "twitter",   pattern |-> {"twitter.com", "x.com"}],
       [platform |-> "facebook",  pattern |-> {"facebook.com"}],
       [platform |-> "reddit",    pattern |-> {"reddit.com"}],
       [platform |-> "twitch",    pattern |-> {"twitch.tv"}] >>

detect_platform(u) ==
    LET hits == {k \in 1..Len(domain_patterns) :
                    re_search(domain_patterns[k].pattern, UrlText(u))}
    IN  IF hits = {} THEN None
        ELSE domain_patterns[CHOOSE k \in hits : \A j \in hits : k <= j].platform

\* extract_video_id(url, "instagram"): the id atom after /p/, /reel/ or /tv/
extract_shortcode(u) ==
    LET t == UrlText(u)
        at == {k \in 1..(Len(t) - 1) :
                  t[k] \in {"/p/", "/reel/", "/tv/"} /\ t[k + 1] \in IdAtoms}
    IN  IF at = {} THEN None
        ELSE t[(CHOOSE k \in at : \A j \in at : k <= j) + 1]

\* the URLs the user types and the batch files hold
UrlA == [scheme |-> "", host |-> <<"youtube.com">>, rest |-> <<"/watch?v=", "abc">>]
UrlB == [scheme |-> "https://", host |-> <<"www.", "youtube.com">>, rest |-> <<"/watch?v=", "abc">>]
UrlC == [scheme |-> "https://", host |-> <<"example.com">>, rest |-> <<"/clip">>]
UrlD == [scheme |-> "https://", host |-> <<"www.", "instagram.com">>, rest |-> <<"/p/", "abc">>]

TypedUrls == {UrlA, UrlC, UrlD}
FileUrls == {UrlA, UrlB, UrlC, UrlD}

\* the URLs detect_platform is applied to on its own
DetectSchemes == {"https://", "http://"}
DetectHosts ==
    { <<"youtube.com">>, <<"www.", "youtube.com">>, <<"youtu.be">>,
      <<"www.", "instagram.com">>, <<"tiktok.com">>, <<"twitter.com">>,
      <<"x.com">>, <<"m.", "facebook.com">>, <<"reddit.com">>, <<"twitch.tv">>,
      <<"example.com">>, <<"netfli", "x.com">>, <<"my", "tiktok.com">> }
DetectRests ==
    { <<>>, <<"/watch?v=", "abc">>, <<"/p/", "abc">>,
      <<"/?u=", "instagram.com">>, <<"/?u=", "youtube.com">> }
DetectUrls == [scheme : DetectSchemes, host : DetectHosts, rest : DetectRests]

(* ------------------------------------------------------------------ *)
(* Media Fetch Gateway                                                 *)
(* ------------------------------------------------------------------ *)
\* The outcome of a call: value is what it returned, raised whether an
\* exception left it instead.
Returned(v) == [raised |-> FALSE, value |-> v]
Raised == [raised |-> TRUE, value |-> FALSE]

\* what the collaborators of download_with_ytdlp do in one call:
\* create_platform_folder raises, extract_info raises, extract_info
\* returns nothing, extract_info returns the information
YtdlpEnv == {"mkdir_error", "extract_error", "no_info", "info"}
\* and those of download_instagram: create_platform_folder raises,
\* instaloader raises an InstaloaderException, anything else raises, the
\* post is downloaded
InstaEnv == {"mkdir_error", "instaloader_error", "unexpected_error", "downloaded"}

\* get_ydl_options: "format": quality or Config.DEFAULT_QUALITY
effective_quality(quality) == IF quality = None THEN DEFAULT_QUALITY ELSE quality

\* the try block of download_with_ytdlp
ytdlp_try(env) ==
    IF env \in {"mkdir_error", "extract_error"} THEN Raised
    ELSE IF env = "info" THEN Returned(TRUE)
    ELSE Returned(FALSE)

\* the try block of download_instagram
instagram_try(u, env) ==
    IF env = "mkdir_error" THEN Raised
    ELSE IF extract_shortcode(u) = None THEN Returned(FALSE)
    ELSE IF env \in {"instaloader_error", "unexpected_error"} THEN Raised
    ELSE Returned(TRUE)

\* download_with_ytdlp without its except clause
download_with_ytdlp_unguarded(u, platform, quality, env) == ytdlp_try(env)

\* except Exception: return False
download_with_ytdlp(u, platform, quality, env) ==
    IF ytdlp_try(env).raised THEN Returned(FALSE) ELSE ytdlp_try(env)

\* except InstaloaderException / except Exception: return False
download_instagram(u, env) ==
    IF instagram_try(u, env).raised THEN Returned(FALSE) ELSE instagram_try(u, env)

\* the strategy both callers select: instagram has its own
\* (if platform == "instagram": download_instagram(url) else: download_with_ytdlp(...))
GatewayEnv(platform) == IF platform = "instagram" THEN InstaEnv ELSE YtdlpEnv
gateway_fn(platform) ==
    IF platform = "instagram" THEN "download_instagram" ELSE "download_with_ytdlp"
gateway(u, platform, quality, env) ==
    IF platform = "instagram" THEN download_instagram(u, env)
    ELSE download_with_ytdlp(u, platform, quality, env)

(* ------------------------------------------------------------------ *)
(* DownloadHistory                                                     *)
(* ------------------------------------------------------------------ *)
new_entry(now, u, platform, success, filename) ==
    [timestamp |-> now, url |-> u, platform |-> platform,
     success |-> success, filename |-> filename]

\* json.dump of one entry: the values in key order, True/False as the
\* literals true/false and None as the literal null
json_dump_entry(e) ==
    << e.timestamp, e.url, e.platform,
       IF e.success THEN "true" ELSE "false",
       IF e.filename = None THEN "null" ELSE e.filename >>
json_load_entry(t) ==
    [timestamp |-> t[1], url |-> t[2], platform |-> t[3],
     success |-> (t[4] = "true"),
     filename |-> IF t[5] = "null" THEN None ELSE t[5]]
json_dump(h) == [k \in 1..Len(h) |-> json_dump_entry(h[k])]
json_load(text) == [k \in 1..Len(text) |-> json_load_entry(text[k])]

\* The history file: missing, holding text json.load rejects, or holding
\* a JSON array of entries.
MissingFile == [kind |-> "missing", text |-> <<>>]
UnparsableFile == [kind |-> "unparsable", text |-> <<>>]
JsonFile(h) == [kind |-> "json", text |-> json_dump(h)]

\* load_history that never finds the file
load_history_never_found(file) == <<>>

load_history(file) ==
    IF file.kind = "missing" THEN <<>>
    ELSE IF file.kind = "unparsable" THEN <<>>
    ELSE json_load(file.text)

\* save_history that writes the history as it was before the append
save_history_stale(h, file, env) ==
    IF env = "open_error" THEN file
    ELSE IF env = "write_error" THEN UnparsableFile
    ELSE JsonFile(SubSeq(h, 1, Len(h) - 1))

\* save_history that adds the newest entry to what the file holds
save_history_append_only(h, file, env) ==
    IF env = "open_error" THEN file
    ELSE IF env = "write_error" THEN UnparsableFile
    ELSE IF file.kind = "json"
         THEN [file EXCEPT !.text = Append(@, json_dump_entry(h[Len(h)]))]
         ELSE JsonFile(<< h[Len(h)] >>)

\* what the file system does to one save_history: open fails (the file is
\* left as it was), the write fails after open truncated the file, or the
\* whole text is written
SaveEnv == {"open_error", "write_error", "written"}

save_history(h, file, env) ==
    IF env = "open_error" THEN file
    ELSE IF env = "write_error" THEN UnparsableFile
    ELSE JsonFile(h)

\* self.history[-100:] taken from the wrong end
keep_last_oldest(h) ==
    IF Len(h) > HISTORY_LIMIT THEN SubSeq(h, 1, HISTORY_LIMIT) ELSE h

\* if len(self.history) > 100: self.history = self.history[-100:]
keep_last(h) ==
    IF Len(h) > HISTORY_LIMIT
    THEN SubSeq(h, Len(h) - HISTORY_LIMIT + 1, Len(h))
    ELSE h

\* the in-memory history after add_entry
add_entry(h, now, u, platform, success) ==
    keep_last(Append(h, new_entry(now, u, platform, success, None)))

(* ------------------------------------------------------------------ *)
(* Menu input                                                          *)
(* ------------------------------------------------------------------ *)
\* the lines the user types at a menu prompt
DigitLines == <<"1", "2", "3", "4", "5", "6", "7", "8", "9">>
WordLines == {"q", "exit", "quit", "abc", ""}
Lines == {DigitLines[k] : k \in 1..Len(DigitLines)} \cup WordLines

\* int(choice), for the lines it accepts
int(line) == CHOOSE k \in 1..Len(DigitLines) : DigitLines[k] = line

\* a round of get_menu_choice's loop that returns nothing and prompts again
Reprompt == 0

\* one round of get_menu_choice on a typed line
get_menu_choice(line, min_val, max_val) ==
    IF line \in {"exit", "quit", "q"} THEN -1
    ELSE IF line \notin {DigitLines[k] : k \in 1..Len(DigitLines)} THEN Reprompt
    ELSE IF min_val <= int(line) /\ int(line) <= max_val THEN int(line)
    ELSE Reprompt

\* platform_map of handle_single_download and handle_batch_download
platform_map == [c \in 2..6 |->
    CASE c = 2 -> "youtube" [] c = 3 -> "instagram" [] c = 4 -> "tiktok"
      [] c = 5 -> "twitter" [] c = 6 -> "other"]

\* QualityManager.quality_map
quality_map == [c \in 1..6 |->
    CASE c = 1 -> "best" [] c = 2 -> "1080p" [] c = 3 -> "720p"
      [] c = 4 -> "480p" [] c = 5 -> "360p" [] c = 6 -> "worst"]

\* set_quality that takes the keyboard exit for the last menu row
set_quality_on_exit(q, choice) ==
    IF choice = 7 THEN q
    ELSE IF choice = -1 THEN quality_map[6]
    ELSE IF choice \in DOMAIN quality_map THEN quality_map[choice]
    ELSE q

\* QualityManager.set_quality: the quality after the menu answered choice
set_quality(q, choice) ==
    IF choice = 7 \/ choice = -1 THEN q
    ELSE IF choice \in DOMAIN quality_map THEN quality_map[choice]
    ELSE q

\* auto-detect without the fallback: an undetected URL keeps None
single_platform_no_fallback(choice, u) ==
    IF choice = 1 THEN detect_platform(u)
    ELSE IF choice \in DOMAIN platform_map THEN platform_map[choice] ELSE "other"

\* the platform handle_single_download downloads with
single_platform(choice, u) ==
    IF choice = 1
    THEN (IF detect_platform(u) = None THEN "other" ELSE detect_platform(u))
    ELSE IF choice \in DOMAIN platform_map THEN platform_map[choice] ELSE "other"

\* the platform argument handle_batch_download passes to download_from_file
batch_override(choice) ==
    IF choice = 1 THEN None
    ELSE IF choice \in DOMAIN platform_map THEN platform_map[choice] ELSE "other"

\* the detected platform first, the override only when none is detected
batch_platform_detect_first(override, u) ==
    IF detect_platform(u) # None THEN detect_platform(u) ELSE override

\* detected_platform = platform or detect_platform(url)
batch_platform(override, u) ==
    IF override # None THEN override ELSE detect_platform(u)

\* success_count that counts every gateway call
count_attempt(count, success) == count + 1

\* if success: success_count += 1
count_success(count, success) == IF success THEN count + 1 ELSE count

\* the pacing test that also waits after the last URL
needs_delay_after_last(idx, n) == idx <= n

\* if i < len(urls): time.sleep(Config.REQUEST_DELAY)
needs_delay(idx, n) == idx < n

(* ------------------------------------------------------------------ *)
(* State                                                               *)
(* ------------------------------------------------------------------ *)
VARIABLES
    pc,              \* where the process is: a prompt, a blocking call, stopped
    running,         \* MediaDownloaderApp.running
    quality,         \* QualityManager.quality
    history,         \* DownloadHistory.history
    file,            \* the content of download_history.json
    now,             \* the clock datetime.now() reads
    saved,           \* what the last save_history met ("none" before the first)
    last_chosen,     \* the quality of the last set-quality choice 1..6, if any
    platform_choice, \* the handlers' local platform_choice
    url,             \* handle_single_download's url
    platform,        \* handle_single_download's platform, download_from_file's platform
    urls,            \* download_from_file's urls
    i,               \* download_from_file's loop index
    success_count,   \* download_from_file's success_count
    trace,           \* what the running handler did so far: skips, gateway calls, sleeps
    last_call,       \* the gateway call that has just returned: what its collaborators did, its outcome
    report,          \* what download_from_file printed last
    budget,          \* the operations left to explore in this session, by kind
    exit_cause       \* why the process stopped

vars == << pc, running, quality, history, file, now, saved, last_chosen,
           platform_choice, url, platform, urls, i, success_count, trace,
           last_call, report, budget, exit_cause >>

store == << history, file, now, saved >>
locals == << platform_choice, url, platform, urls, i, success_count, trace, last_call, report >>

\* the entries a history file of this program holds when the session starts
stored_entry(k) == new_entry(k, UrlB, "youtube", k % 2 = 0, None)
stored_history(n) == [k \in 1..n |-> stored_entry(k)]
InitialFiles ==
    {MissingFile, UnparsableFile, JsonFile(stored_history(HISTORY_LIMIT - 1))}

\* The sessions explored: single downloads alone (the store's states), the
\* batch and quality menus alone, and one single download with the quality
\* menu.
Budgets ==
    { [single |-> MaxSingle, batch |-> FALSE, set_quality |-> FALSE],
      [single |-> 0, batch |-> TRUE, set_quality |-> TRUE],
      [single |-> 1, batch |-> FALSE, set_quality |-> TRUE] }

NoReport == [kind |-> "none", ok |-> 0, total |-> 0]
NoUrl == [scheme |-> "", host |-> <<>>, rest |-> <<>>]
NoCall == [env |-> "none", raised |-> FALSE, value |-> FALSE]
Call(env, r) == [env |-> env, raised |-> r.raised, value |-> r.value]

\* the state after MediaDownloaderApp() and the first display_main_menu()
Init ==
    /\ pc = "main_menu"
    /\ running = TRUE
    /\ quality = DEFAULT_QUALITY
    /\ file \in InitialFiles
    /\ history = load_history(file)
    /\ now = HISTORY_LIMIT + 1
    /\ saved = "none"
    /\ last_chosen = None
    /\ platform_choice = 0
    /\ url = NoUrl
    /\ platform = None
    /\ urls = <<>>
    /\ i = 0
    /\ success_count = 0
    /\ trace = <<>>
    /\ last_call = NoCall
    /\ report = NoReport
    /\ budget \in Budgets
    /\ exit_cause = "none"

ResetLocals ==
    /\ platform_choice' = 0
    /\ url' = NoUrl
    /\ platform' = None
    /\ urls' = <<>>
    /\ i' = 0
    /\ success_count' = 0
    /\ trace' = <<>>
    /\ last_call' = NoCall
    /\ report' = NoReport

\* one entry of trace
Event(ev, idx, fn, u, p, q, ok) ==
    [ev |-> ev, idx |-> idx, fn |-> fn, url |-> u, platform |-> p,
     quality |-> q, success |-> ok]

(* ------------------------------------------------------------------ *)
(* MediaDownloaderApp.run: the main menu                                *)
(* ------------------------------------------------------------------ *)
\* the choice run() acts on for a typed line (-1 becomes 8)
run_choice(line) ==
    IF get_menu_choice(line, 1, 8) = -1 THEN 8 ELSE get_menu_choice(line, 1, 8)

\* choice 1: handle_single_download shows the platform menu
ChooseSingle ==
    /\ pc = "main_menu"
    /\ \E line \in Lines : run_choice(line) = 1
    /\ budget.single > 0
    /\ pc' = "single_platform"
    /\ UNCHANGED << running, quality, store, last_chosen, locals, budget, exit_cause >>

\* choice 2: handle_batch_download asks for the file
ChooseBatch ==
    /\ pc = "main_menu"
    /\ \E line \in Lines : run_choice(line) = 2
    /\ budget.batch
    /\ pc' = "batch_file"
    /\ UNCHANGED << running, quality, store, last_chosen, locals, budget, exit_cause >>

\* choice 3: set_quality shows the quality menu
ChooseQuality ==
    /\ pc = "main_menu"
    /\ \E line \in Lines : run_choice(line) = 3
    /\ budget.set_quality
    /\ pc' = "quality_menu"
    /\ UNCHANGED << running, quality, store, last_chosen, locals, budget, exit_cause >>

\* choices 4, 5, 7 (show_history, open folder, about) print and pause;
\* choice 6 clears the console and shows the menu again
ChooseDisplay ==
    /\ pc = "main_menu"
    /\ \E line \in Lines :
          /\ run_choice(line) \in {4, 5, 6, 7}
          /\ pc' = IF run_choice(line) = 6 THEN "main_menu" ELSE "pause"
    /\ UNCHANGED << running, quality, store, last_chosen, locals, budget, exit_cause >>

\* choice 8, or exit/quit/q
ChooseExit ==
    /\ pc = "main_menu"
    /\ \E line \in Lines : run_choice(line) = 8
    /\ running' = FALSE
    /\ pc' = "stopped"
    /\ exit_cause' = "exit_option"
    /\ UNCHANGED << quality, store, last_chosen, locals, budget >>

\* "Press Enter to continue...", then the menu again
Pause ==
    /\ pc = "pause"
    /\ pc' = "main_menu"
    /\ ResetLocals
    /\ UNCHANGED << running, quality, store, last_chosen, budget, exit_cause >>

(* ------------------------------------------------------------------ *)
(* QualityManager.set_quality                                          *)
(* ------------------------------------------------------------------ *)
SetQuality ==
    /\ pc = "quality_menu"
    /\ \E line \in Lines :
          LET choice == get_menu_choice(line, 1, 7) IN
          /\ choice # Reprompt
          /\ quality' = set_quality(quality, choice)
          /\ last_chosen' = IF choice \in 1..6 THEN quality_map[choice] ELSE last_chosen
    /\ pc' = "pause"
    /\ UNCHANGED << running, store, locals, budget, exit_cause >>

(* ------------------------------------------------------------------ *)
(* MediaDownloaderApp.handle_single_download                          *)
(* ------------------------------------------------------------------ *)
\* the platform menu: exit words and 7 (Back) return to run()
SinglePlatform ==
    /\ pc = "single_platform"
    /\ \E line \in Lines :
          LET choice == get_menu_choice(line, 1, 7) IN
          /\ choice # Reprompt
          /\ IF choice = -1 \/ choice = 7
             THEN pc' = "pause" /\ UNCHANGED platform_choice
             ELSE pc' = "single_url" /\ platform_choice' = choice
    /\ UNCHANGED << running, quality, store, last_chosen, url, platform, urls, i,
                    success_count, trace, last_call, report, budget, exit_cause >>

\* get_url_input answered with back/exit/quit or with nothing: no URL
SingleUrlNone ==
    /\ pc = "single_url"
    /\ pc' = "pause"
    /\ UNCHANGED << running, quality, store, last_chosen, locals, budget, exit_cause >>

\* get_url_input answered with a URL: an invalid one prompts again, a valid
\* one fixes the platform and starts the download
SingleUrl ==
    /\ pc = "single_url"
    /\ \E u \in TypedUrls :
          IF is_valid_url(u)
          THEN /\ url' = u
               /\ platform' = single_platform(platform_choice, u)
               /\ pc' = "single_fetch"
          ELSE UNCHANGED << url, platform, pc >>
    /\ UNCHANGED << running, quality, store, last_chosen, platform_choice, urls, i,
                    success_count, trace, last_call, report, budget, exit_cause >>

\* the quality argument of the gateway call of handle_single_download
single_quality_arg(p, q) == IF p = "instagram" THEN None ELSE q

\* the gateway call and, when it returns, add_entry with its save_history;
\* an exception leaving the gateway reaches run()'s except Exception, which
\* prints it and pauses
SingleFetch ==
    /\ pc = "single_fetch"
    /\ \E env \in GatewayEnv(platform), senv \in SaveEnv :
          LET r == gateway(url, platform, quality, env) IN
          /\ last_call' = Call(env, r)
          /\ IF r.raised
             THEN /\ trace' = Append(trace, Event("raised", 0, gateway_fn(platform), url,
                                                   platform, single_quality_arg(platform, quality), FALSE))
                  /\ UNCHANGED store
             ELSE /\ trace' = Append(trace, Event("fetch", 0, gateway_fn(platform), url,
                                                   platform, single_quality_arg(platform, quality), r.value))
                  /\ history' = add_entry(history, now, url, platform, r.value)
                  /\ file' = save_history(history', file, senv)
                  /\ saved' = senv
                  /\ now' = now + 1
    /\ budget' = [budget EXCEPT !.single = @ - 1]
    /\ pc' = "pause"
    /\ UNCHANGED << running, quality, last_chosen, platform_choice, url, platform,
                    urls, i, success_count, report, exit_cause >>

(* ------------------------------------------------------------------ *)
(* MediaDownloaderApp.handle_batch_download, download_from_file          *)
(* ------------------------------------------------------------------ *)
\* the lists a batch file holds (its non-empty stripped lines): every list
\* of up to n different URLs
RECURSIVE UrlLists(_)
UrlLists(n) ==
    IF n = 0 THEN {<<>>}
    ELSE UrlLists(n - 1) \cup
         {Append(l, u) : l \in {m \in UrlLists(n - 1) : Len(m) = n - 1}, u \in FileUrls}
FileLists == {l \in UrlLists(MaxUrls) : \A j, k \in 1..Len(l) : j # k => l[j] # l[k]}

\* get_file_input: nothing entered or no such file returns to run(), a
\* file that exists shows the platform menu
BatchFile ==
    /\ pc = "batch_file"
    /\ \E answer \in {"", "not_found", "found"} :
          pc' = IF answer = "found" THEN "batch_platform" ELSE "pause"
    /\ UNCHANGED << running, quality, store, last_chosen, locals, budget, exit_cause >>

\* print_success("Batch download completed: ...") after the loop
Completed == [kind |-> "completed", ok |-> success_count', total |-> Len(urls)]

\* the end of one round of the for loop: the next URL, or the report
NextUrl ==
    IF i < Len(urls)
    THEN i' = i + 1 /\ pc' = "batch_loop" /\ UNCHANGED report
    ELSE i' = i /\ pc' = "pause" /\ report' = Completed

\* the platform menu, then download_from_file up to its loop: the file is
\* read (or reading raises), an empty list is reported and returned from
BatchPlatform ==
    /\ pc = "batch_platform"
    /\ \E line \in Lines :
          LET choice == get_menu_choice(line, 1, 7) IN
          /\ choice # Reprompt
          /\ IF choice = -1 \/ choice = 7
             THEN /\ pc' = "pause"
                  /\ UNCHANGED << platform_choice, platform, urls, i, report >>
             ELSE /\ platform_choice' = choice
                  /\ platform' = batch_override(choice)
                  /\ \E read \in {"raises", "read"} :
                        IF read = "raises"
                        THEN /\ report' = [kind |-> "failed", ok |-> 0, total |-> 0]
                             /\ pc' = "pause"
                             /\ UNCHANGED << urls, i >>
                        ELSE \E list \in FileLists :
                                /\ urls' = list
                                /\ IF list = <<>>
                                   THEN /\ report' = [kind |-> "no_urls", ok |-> 0, total |-> 0]
                                        /\ pc' = "pause"
                                        /\ UNCHANGED i
                                   ELSE /\ i' = 1
                                        /\ pc' = "batch_loop"
                                        /\ UNCHANGED report
    /\ UNCHANGED << running, quality, store, last_chosen, url, success_count, trace,
                    last_call, budget, exit_cause >>

\* the head of one round: an invalid URL and a URL with no platform are
\* skipped (continue), any other goes to the gateway
BatchLoop ==
    /\ pc = "batch_loop"
    /\ last_call' = NoCall
    /\ IF ~is_valid_url(urls[i])
       THEN /\ trace' = Append(trace, Event("invalid", i, None, urls[i], None, None, FALSE))
            /\ UNCHANGED success_count
            /\ NextUrl
       ELSE IF batch_platform(platform, urls[i]) = None
       THEN /\ trace' = Append(trace, Event("no_platform", i, None, urls[i], None, None, FALSE))
            /\ UNCHANGED success_count
            /\ NextUrl
       ELSE /\ pc' = "batch_fetch"
            /\ UNCHANGED << trace, success_count, i, report >>
    /\ UNCHANGED << running, quality, store, last_chosen, platform_choice, url,
                    platform, urls, budget, exit_cause >>

\* the gateway call of one round; an exception leaving the gateway reaches
\* download_from_file's except Exception, which ends the batch
BatchFetch ==
    /\ pc = "batch_fetch"
    /\ LET p == batch_platform(platform, urls[i]) IN
       \E env \in GatewayEnv(p) :
          LET r == gateway(urls[i], p, None, env) IN
          /\ last_call' = Call(env, r)
          /\ IF r.raised
             THEN /\ trace' = Append(trace, Event("raised", i, gateway_fn(p), urls[i], p, None, FALSE))
                  /\ report' = [kind |-> "failed", ok |-> 0, total |-> 0]
                  /\ pc' = "pause"
                  /\ UNCHANGED << success_count, i >>
             ELSE /\ trace' = Append(trace, Event("fetch", i, gateway_fn(p), urls[i], p, None, r.value))
                  /\ success_count' = count_success(success_count, r.value)
                  /\ IF needs_delay(i, Len(urls))
                     THEN pc' = "batch_sleep" /\ UNCHANGED << i, report >>
                     ELSE NextUrl
    /\ UNCHANGED << running, quality, store, last_chosen, platform_choice, url,
                    platform, urls, budget, exit_cause >>

\* time.sleep(Config.REQUEST_DELAY)
BatchSleep ==
    /\ pc = "batch_sleep"
    /\ trace' = Append(trace, Event("sleep", i, None, urls[i], None, None, FALSE))
    /\ last_call' = NoCall
    /\ UNCHANGED success_count
    /\ NextUrl
    /\ UNCHANGED << running, quality, store, last_chosen, platform_choice, url,
                    platform, urls, budget, exit_cause >>

(* ------------------------------------------------------------------ *)
(* The program without interrupts                                      *)
(* ------------------------------------------------------------------ *)
Next ==
    \/ ChooseSingle
    \/ ChooseBatch
    \/ ChooseQuality
    \/ ChooseDisplay
    \/ ChooseExit
    \/ Pause
    \/ SetQuality
    \/ SinglePlatform
    \/ SingleUrlNone
    \/ SingleUrl
    \/ SingleFetch
    \/ BatchFile
    \/ BatchPlatform
    \/ BatchLoop
    \/ BatchFetch
    \/ BatchSleep

Spec == Init /\ [][Next]_vars

(* ------------------------------------------------------------------ *)
(* The program with the interrupt signal and the end of standard input *)
(* ------------------------------------------------------------------ *)
\* the places where input() waits inside a function that catches
\* KeyboardInterrupt and returns -1 or None
CatchingPrompts ==
    {"single_platform", "single_url", "batch_file", "batch_platform", "quality_menu"}
\* the places where KeyboardInterrupt reaches run()'s handler
UncaughtPlaces == {"single_fetch", "batch_loop", "batch_fetch", "batch_sleep", "pause"}

\* Ctrl-C while get_menu_choice waits at the main menu: it returns -1,
\* run() makes that choice 8
InterruptMainMenu ==
    /\ pc = "main_menu"
    /\ running' = FALSE
    /\ pc' = "stopped"
    /\ exit_cause' = "interrupt"
    /\ UNCHANGED << quality, store, last_chosen, locals, budget >>

\* Ctrl-C at a prompt of a handler: the handler returns, run() pauses
InterruptPrompt ==
    /\ pc \in CatchingPrompts
    /\ pc' = "pause"
    /\ UNCHANGED << running, quality, store, last_chosen, locals, budget, exit_cause >>

\* Ctrl-C during a download, the batch loop, its sleep or the pause:
\* the handler is left and run()'s except KeyboardInterrupt asks
\* "Do you want to exit? (y/n)"
InterruptRunning ==
    /\ pc \in UncaughtPlaces
    /\ pc' = "confirm_exit"
    /\ ResetLocals
    /\ UNCHANGED << running, quality, store, last_chosen, budget, exit_cause >>

\* the answer to the exit confirmation
ConfirmExit ==
    /\ pc = "confirm_exit"
    /\ \E answer \in {"y", "yes", "n", ""} :
          IF answer \in {"y", "yes"}
          THEN /\ running' = FALSE
               /\ pc' = "stopped"
               /\ exit_cause' = "confirmed"
          ELSE /\ pc' = "main_menu"
               /\ UNCHANGED << running, exit_cause >>
    /\ ResetLocals
    /\ UNCHANGED << quality, store, last_chosen, budget >>

\* Ctrl-C at the exit confirmation: raised inside the handler, it leaves
\* run() and main(), whose except Exception does not catch it
InterruptConfirm ==
    /\ pc = "confirm_exit"
    /\ pc' = "stopped"
    /\ exit_cause' = "uncaught_interrupt"
    /\ UNCHANGED << running, quality, store, last_chosen, locals, budget >>

\* standard input ends at a prompt: EOFError reaches run()'s except
\* Exception, whose own input() raises it again; main() logs the fatal
\* error and exits with code 1
EndOfInput ==
    /\ pc \in CatchingPrompts \cup {"main_menu", "pause", "confirm_exit"}
    /\ pc' = "stopped"
    /\ exit_cause' = "fatal_error"
    /\ ResetLocals
    /\ UNCHANGED << running, quality, store, last_chosen, budget >>

NextInt ==
    \/ Next
    \/ InterruptMainMenu
    \/ InterruptPrompt
    \/ InterruptRunning
    \/ ConfirmExit
    \/ InterruptConfirm
    \/ EndOfInput

SpecInt == Init /\ [][NextInt]_vars

(* ------------------------------------------------------------------ *)
(* detect_platform on its own                                          *)
(* ------------------------------------------------------------------ *)
\* a caller holding one URL, about to call detect_platform(url)
InitDetect ==
    /\ pc = "detect_platform"
    /\ url \in DetectUrls
    /\ platform = None
    /\ running = TRUE
    /\ quality = DEFAULT_QUALITY
    /\ file = MissingFile
    /\ history = load_history(file)
    /\ now = HISTORY_LIMIT + 1
    /\ saved = "none"
    /\ last_chosen = None
    /\ platform_choice = 0
    /\ urls = <<>>
    /\ i = 0
    /\ success_count = 0
    /\ trace = <<>>
    /\ last_call = NoCall
    /\ report = NoReport
    /\ budget = [single |-> 0, batch |-> FALSE, set_quality |-> FALSE]
    /\ exit_cause = "none"

\* platform = detect_platform(url)
DetectPlatform ==
    /\ pc = "detect_platform"
    /\ platform' = detect_platform(url)
    /\ pc' = "detected"
    /\ UNCHANGED << running, quality, history, file, now, saved, last_chosen,
                    platform_choice, url, urls, i, success_count, trace,
                    last_call, report, budget, exit_cause >>

NextDetect == DetectPlatform

SpecDetect == InitDetect /\ [][NextDetect]_vars

(* ------------------------------------------------------------------ *)
(* Properties                                                          *)
(* ------------------------------------------------------------------ *)
InBatch == pc \in {"batch_loop", "batch_fetch", "batch_sleep"}
Indexes(t) == 1..Len(t)
IsRound(e) == e.ev \in {"invalid", "no_platform", "fetch"}
Rounds(t) == SelectSeq(t, IsRound)
IsFetch(e) == e.ev = "fetch"
IsSuccess(e) == e.ev = "fetch" /\ e.success
IsSleep(e) == e.ev = "sleep"
Min(a, b) == IF a < b THEN a ELSE b

\* C1: in batch mode each gateway call that returns is followed by one
\* add_entry: the step that ends the call appends to the history one record
\* of the URL, its platform and the call's success flag.
C1_BatchAttemptRecorded ==
    [][ (pc = "batch_fetch" /\ Len(trace') = Len(trace) + 1
            /\ trace'[Len(trace')].ev = "fetch")
        => history' = add_entry(history, now, urls[i],
                                trace'[Len(trace')].platform,
                                trace'[Len(trace')].success) ]_vars

\* C2: every generic-strategy gateway call of a batch works with the quality
\* that is current in the session.
C2_BatchUsesCurrentQuality ==
    \A k \in Indexes(trace) :
        (trace[k].ev = "fetch" /\ trace[k].idx > 0
            /\ trace[k].fn = "download_with_ytdlp")
        => effective_quality(trace[k].quality) = quality

\* the rounds done so far are those of the URLs 1..n, in order, once each
RoundsAre(n) ==
    /\ Len(Rounds(trace)) = n
    /\ \A k \in 1..n : Rounds(trace)[k].idx = k /\ Rounds(trace)[k].url = urls[k]

\* C3 (as the claim states it): whenever download_from_file has read a list
\* and returned, every URL had its round and the report is success_count out
\* of len(urls).
C3_EveryListReported ==
    (pc = "pause" /\ report.kind \in {"no_urls", "completed"})
    => /\ report.kind = "completed"
       /\ RoundsAre(Len(urls))
       /\ report.total = Len(urls)
       /\ report.ok = Len(SelectSeq(trace, IsSuccess))

\* C3 (amended): for a non-empty list the loop is never left early: while it
\* runs the rounds done are those of the URLs before the current one, in
\* order and once each, with success_count the number of successful calls;
\* it is left only by the report, made after the round of the last URL, of
\* success_count out of len(urls).
C3_BatchNeverAborts ==
    /\ InBatch =>
          /\ urls # <<>> /\ i \in 1..Len(urls)
          /\ RoundsAre(IF pc = "batch_sleep" THEN i ELSE i - 1)
          /\ success_count = Len(SelectSeq(trace, IsSuccess))
          /\ report = NoReport
    /\ (pc = "pause" /\ urls # <<>>) =>
          /\ report.kind = "completed"
          /\ RoundsAre(Len(urls))
          /\ report.total = Len(urls)
          /\ report.ok = Len(SelectSeq(trace, IsSuccess))
    /\ \A k \in Indexes(trace) : trace[k].ev # "raised"

C3_Witness ==
    /\ pc = "pause"
    /\ urls = <<UrlA, UrlB, UrlD>>
    /\ platform = None
    /\ report = [kind |-> "completed", ok |-> 1, total |-> 3]
    /\ trace[2].success /\ ~trace[4].success

\* C4: after every add_entry (the steps that read the clock, and any step
\* that changes the history) the new history is the last min(100, n + 1)
\* elements of the old one followed by the new record, so it has at most 100
\* records, the retained ones unmodified and in order, the new one last.
C4_HistoryCap ==
    [][ (now' # now \/ history' # history) =>
          LET n == Len(history)
              m == Len(history')
              all == Append(history, new_entry(now, url, platform,
                                               trace'[Len(trace')].success, None))
          IN  /\ m = Min(100, n + 1)
              /\ m <= 100
              /\ \A k \in 1..m : history'[k] = all[n + 1 - m + k] ]_vars

\* 101 records: the 99 stored ones and two new ones; the oldest is dropped
C4_Witness ==
    /\ Len(history) = 100
    /\ now = 103
    /\ history[1] = stored_entry(2)
    /\ history[99].timestamp = 101
    /\ history[100].timestamp = 102

\* what a fresh DownloadHistory on the same file starts with
FreshHistory == load_history(file)

\* C5 (as the claim states it): after any add_entry a fresh DownloadHistory
\* on the same file has the history of the store that did the append.
C5_RoundTripAfterAnyAppend ==
    saved # "none" => FreshHistory = history

\* C5 (amended): after an add_entry whose save_history wrote the file, the
\* file is a complete encoding of the in-memory sequence and a fresh
\* DownloadHistory on it has that sequence.
C5_RoundTripAfterWrite ==
    saved = "written" =>
        /\ file.kind = "json"
        /\ Len(file.text) = Len(history)
        /\ FreshHistory = history

C5_Witness ==
    /\ saved = "written"
    /\ Len(history) = 100
    /\ history[1] = stored_entry(2)
    /\ ~history[100].success

\* the entries a file holds, read field by field
FileEntries ==
    IF file.kind = "json"
    THEN [k \in 1..Len(file.text) |->
            [timestamp |-> file.text[k][1], url |-> file.text[k][2],
             platform |-> file.text[k][3], success |-> file.text[k][4] = "true",
             filename |-> None]]
    ELSE <<>>

\* C6: the store is constructed whatever the file is: until the first
\* add_entry the history is empty for a missing or unparsable file and the
\* file's sequence for a valid one; the first add_entry works on that
\* sequence (seen when its save left the file as it was).
C6_LoadOnConstruction ==
    /\ saved = "none" => history = FileEntries
    /\ (saved = "open_error" /\ now = HISTORY_LIMIT + 2) =>
          /\ Len(history) = Min(100, Len(FileEntries) + 1)
          /\ \A k \in 1..(Len(history) - 1) :
                history[k] = FileEntries[k + Len(FileEntries) + 1 - Len(history)]
          /\ history[Len(history)].timestamp = HISTORY_LIMIT + 1

C6_Witness ==
    /\ saved = "open_error"
    /\ now = HISTORY_LIMIT + 2
    /\ file.kind = "json"
    /\ Len(history) = 100

\* what makes a gateway call fail
FailingEnv ==
    {"mkdir_error", "extract_error", "no_info", "instaloader_error", "unexpected_error"}

\* C7: no exception leaves the gateway: when a collaborator raised or
\* returned nothing the call returned False, it is in the trace as a failed
\* fetch, and the application goes on (the batch is not ended by it).
C7_GatewayNeverRaises ==
    /\ ~last_call.raised
    /\ \A k \in Indexes(trace) : trace[k].ev # "raised"
    /\ last_call.env \in FailingEnv =>
          /\ ~last_call.value
          /\ trace # <<>>
          /\ trace[Len(trace)].ev = "fetch"
          /\ ~trace[Len(trace)].success
          /\ running
          /\ pc \in {"pause", "batch_sleep"}
          /\ report.kind \in {"none", "completed"}

C7_Witness ==
    /\ last_call.env = "extract_error"
    /\ pc = "batch_sleep"
    /\ trace[Len(trace)].fn = "download_with_ytdlp"

\* C8: the quality is 'best' until a set-quality choice 1..6 and then that of
\* the last such choice, whatever else was done; the generic gateway call of
\* a single download gets that quality.
C8_QualityOnlyBySetQuality ==
    /\ quality = IF last_chosen = None THEN "best" ELSE last_chosen
    /\ \A k \in Indexes(trace) :
          (trace[k].ev = "fetch" /\ trace[k].idx = 0
              /\ trace[k].fn = "download_with_ytdlp")
          => trace[k].quality = quality

C8_Witness ==
    /\ pc = "pause"
    /\ trace # <<>>
    /\ trace[1].ev = "fetch" /\ trace[1].idx = 0
    /\ trace[1].fn = "download_with_ytdlp"
    /\ trace[1].quality = "480p"
    /\ last_chosen = "480p"

\* C9: a sleep comes right after a gateway call of a URL that is not the last
\* one, and every such call is followed by one; skipped URLs and the last URL
\* are followed by none. For [A invalid, B youtube, C unknown] there is one
\* sleep, after B.
C9_BatchPacing ==
    /\ \A k \in Indexes(trace) :
          /\ IsSleep(trace[k]) =>
                /\ k > 1
                /\ trace[k - 1].ev = "fetch"
                /\ trace[k - 1].idx = trace[k].idx
                /\ trace[k].idx < Len(urls)
          /\ (trace[k].ev = "fetch" /\ trace[k].idx > 0 /\ trace[k].idx < Len(urls)) =>
                IF k < Len(trace) THEN IsSleep(trace[k + 1]) ELSE pc = "batch_sleep"
    /\ (urls = <<UrlA, UrlB, UrlC>> /\ platform = None /\ report.kind = "completed") =>
          /\ Len(SelectSeq(trace, IsSleep)) = 1
          /\ SelectSeq(trace, IsSleep)[1].idx = 2

C9_Witness ==
    /\ urls = <<UrlA, UrlB, UrlC>>
    /\ platform = None
    /\ report.kind = "completed"
    /\ Len(trace) = 4
    /\ IsSleep(trace[3])

\* C10: the process stops only on a confirmed exit confirmation, through the
\* Exit option, or with an error nothing catches.
C10_StopsOnlyOnConfirmation ==
    pc = "stopped" =>
        exit_cause \in {"confirmed", "exit_option", "fatal_error", "uncaught_interrupt"}

\* the registered domain of a host: its last atom when the atoms before it
\* are whole labels (the host is that domain or a subdomain of it)
HostDomain(h) ==
    IF h # <<>> /\ (\A k \in 1..(Len(h) - 1) : h[k] \in LabelAtoms)
    THEN h[Len(h)]
    ELSE "another domain"

\* the first table row holding the host's domain, None when no row does
HostPlatform(h) ==
    LET rows == {k \in 1..Len(domain_patterns) :
                    HostDomain(h) \in domain_patterns[k].pattern}
    IN  IF rows = {} THEN None
        ELSE domain_patterns[CHOOSE k \in rows : \A j \in rows : k <= j].platform

\* C11: detect_platform decides on the URL's host: a host that is a table
\* domain or a subdomain of one gives that row's platform, and every other
\* host gives none, whatever the path and the query contain.
C11_DetectByHost ==
    pc = "detected" => platform = HostPlatform(url.host)

\* the effective platform of a single download: the menu's platform, and
\* under auto-detect the detected one or 'other' when none is detected
EffectivePlatform(choice, u) ==
    CASE choice = 1 -> (IF detect_platform(u) # None THEN detect_platform(u) ELSE "other")
      [] choice = 2 -> "youtube"
      [] choice = 3 -> "instagram"
      [] choice = 4 -> "tiktok"
      [] choice = 5 -> "twitter"
      [] OTHER -> "other"

\* C12: in the single-URL path the gateway call is followed by exactly one
\* add_entry carrying the same URL, the effective platform and the success
\* flag the gateway returned; backing out of the platform menu or giving no
\* URL makes no gateway call and appends nothing.
C12_SingleFetchRecorded ==
    [][ /\ (pc = "single_fetch" /\ pc' # "single_fetch") =>
              LET n == Len(history)
                  m == Len(history')
                  p == EffectivePlatform(platform_choice, url)
              IN  /\ ~last_call'.raised
                  /\ trace' = Append(trace, trace'[Len(trace')])
                  /\ trace'[Len(trace')].ev = "fetch"
                  /\ trace'[Len(trace')].url = url
                  /\ trace'[Len(trace')].platform = p
                  /\ trace'[Len(trace')].success = last_call'.value
                  /\ m >= 1
                  /\ history'[m] = new_entry(now, url, p, last_call'.value, None)
                  /\ \A k \in 1..(m - 1) : history'[k] = history[n - (m - 1) + k]
                  /\ now' = now + 1
        /\ (pc \in {"single_platform", "single_url"} /\ pc' = "pause") =>
              /\ trace' = <<>>
              /\ last_call' = NoCall
              /\ UNCHANGED << history, file, now, saved >> ]_vars

\* an auto-detected download of a URL of no known platform, recorded as
\* 'other' with the failure the gateway returned
C12_Witness ==
    /\ pc = "pause"
    /\ platform_choice = 1
    /\ url = UrlC
    /\ Len(trace) = 1
    /\ trace[1].ev = "fetch"
    /\ ~last_call.value
    /\ history[Len(history)] = new_entry(now - 1, UrlC, "other", FALSE, None)

\* the outcomes of save_history that leave the history unwritten
SaveFailures == {"open_error", "write_error"}

\* C13: a save_history failure inside add_entry is swallowed: add_entry
\* returns, the in-memory history ends with the new record (cap applied) and
\* the handler goes on to its pause; an add_entry that writes after one that
\* failed writes the whole in-memory sequence, the unsaved record included.
C13_SaveFailureSwallowed ==
    [][ now' # now =>
          LET n == Len(history)
              m == Len(history')
          IN  /\ saved' \in SaveFailures =>
                    /\ pc' = "pause"
                    /\ running'
                    /\ exit_cause' = "none"
                    /\ m = Min(HISTORY_LIMIT, n + 1)
                    /\ history'[m] = new_entry(now, url, platform, last_call'.value, None)
                    /\ \A k \in 1..(m - 1) : history'[k] = history[n - (m - 1) + k]
                    /\ file' \in {file, UnparsableFile}
              /\ (saved \in SaveFailures /\ saved' = "written") =>
                    /\ m >= 2
                    /\ history'[m - 1] = history[n]
                    /\ history[n].timestamp = now - 1
                    /\ file'.kind = "json"
                    /\ Len(file'.text) = m
                    /\ \A k \in 1..m : json_load_entry(file'.text[k]) = history'[k] ]_vars

\* the 100th record appended while the write failed: the file is left
\* truncated, the record is in memory and the handler is at its pause
C13_Witness ==
    /\ saved = "write_error"
    /\ file = UnparsableFile
    /\ pc = "pause"
    /\ running
    /\ Len(history) = HISTORY_LIMIT
    /\ history[1] = stored_entry(1)
    /\ history[HISTORY_LIMIT].timestamp = now - 1

\* the effective platform of a batch round: the override when one is given,
\* otherwise the detected platform (None when there is neither)
BatchEffective(override, u) ==
    CASE override # None -> override
      [] OTHER -> detect_platform(u)

\* C14: in a batch the gateway is called for a URL only if the URL is valid
\* and has an effective platform (the override, else the detected one), with
\* that platform and with download_instagram for 'instagram' and
\* download_with_ytdlp for any other; an invalid URL and a URL with neither
\* override nor detected platform are skipped with no gateway call and are
\* not counted as successes.
C14_BatchRouting ==
    urls # <<>> =>
        /\ \A k \in Indexes(trace) :
              LET e == trace[k]
                  eff == BatchEffective(platform, e.url)
              IN  /\ e.idx \in 1..Len(urls) /\ e.url = urls[e.idx]
                  /\ IsRound(e) =>
                        (e.ev = "fetch" <=> (is_valid_url(e.url) /\ eff # None))
                  /\ e.ev = "invalid" => ~is_valid_url(e.url)
                  /\ e.ev = "fetch" =>
                        /\ e.platform = eff
                        /\ e.fn = (IF eff = "instagram" THEN "download_instagram"
                                   ELSE "download_with_ytdlp")
                  /\ e.ev # "fetch" => (e.fn = None /\ ~e.success)
        /\ (trace # <<>> /\ trace[Len(trace)].ev \in {"invalid", "no_platform"}) =>
              last_call = NoCall
        /\ success_count = Cardinality({k \in Indexes(trace) :
                                            trace[k].ev = "fetch" /\ trace[k].success})
        /\ pc = "batch_fetch" =>
              /\ is_valid_url(urls[i])
              /\ BatchEffective(platform, urls[i]) # None

\* a list without override: the first URL fails validation, the second goes
\* to download_instagram and succeeds, the third has no platform
C14_Witness ==
    /\ pc = "pause"
    /\ platform = None
    /\ urls = <<UrlA, UrlD, UrlC>>
    /\ Len(trace) = 4
    /\ trace[1].ev = "invalid"
    /\ trace[2].ev = "fetch" /\ trace[2].fn = "download_instagram" /\ trace[2].success
    /\ trace[4].ev = "no_platform"
    /\ report = [kind |-> "completed", ok |-> 1, total |-> 3]

====
